---- MODULE Spec2Model ----
(***************************************************************************)
(* A model of the persistence layer of the investment assistant            *)
(* (src/investment_assistant/database.py): the six SQLite tables, the      *)
(* schema that init_db creates, and one action per Database method.        *)
(*                                                                         *)
(* A table is the sequence of its rows in rowid order.  Every handler      *)
(* opens a connection, runs its statements, commits and closes; a handler  *)
(* whose statement raises leaves the store as it was (nothing was          *)
(* committed) and the exception reaches the caller: the variable last      *)
(* records the call, how it ended and what it returned.                    *)
(***************************************************************************)
EXTENDS Integers, Sequences, FiniteSets, TLC

\* ---------------------------------------------------------------- bounds
\* Rows one table may ever receive (the AUTOINCREMENT counter's cap).
MaxId == 2
\* Rows the trades table may receive.
MaxTrades == 3
\* Rows the prompts table may receive.
MaxPrompts == 3
\* Rows all tables together may receive in the whole-store specification.
MaxTotal == 2
\* Ticks of the CURRENT_TIMESTAMP clock (one-second resolution).
MaxTime == 1
\* Significand width of the store's REAL numbers (53 for an IEEE double).
MantBits == 3
\* Symbols entered on the Stock Prices page.
MaxSymbols == 3
\* Quotes in one answer of the symbol search.
MaxQuotes == 12

\* ----------------------------------------------------------- value domains
\* SQL NULL / Python None, for text and for numeric columns.
NULL == "NULL"
NullNum == 0 - 1

Dates == {1, 2}
Contents == {"a", "b"}

\* ------------------------------------------------------------------ state
VARIABLES
    now,              \* CURRENT_TIMESTAMP
    schema,           \* the columns of each table; none: the table is absent
    seq,              \* sqlite_sequence: last AUTOINCREMENT id per table
    investment_trends,
    trade_ideas,
    trades,
    prompts,
    gpt_trends,
    gpt_ideas,
    last              \* the latest call: [op, args, status, val, conn]

vars == <<now, schema, seq, investment_trends, trade_ideas, trades,
          prompts, gpt_trends, gpt_ideas, last>>

tables == <<investment_trends, trade_ideas, trades, prompts, gpt_trends, gpt_ideas>>

TableNames == {"investment_trends", "trade_ideas", "trades", "prompts",
               "gpt_trends", "gpt_ideas"}

\* ------------------------------------------------------------------ schema
\* The columns init_db's CREATE TABLE statements give each table.
CreatedSchema ==
    [n \in TableNames |->
        CASE n = "investment_trends" ->
                 {"id", "week_start_date", "trend_content", "created_at", "updated_at"}
          [] n = "trade_ideas" ->
                 {"id", "symbol", "idea_description", "entry_price", "target_price",
                  "stop_loss", "reasoning", "status", "created_at", "updated_at"}
          [] n = "trades" ->
                 {"id", "symbol", "trade_type", "quantity", "price", "amount",
                  "reasoning", "trade_date", "created_at"}
          [] n = "prompts" ->
                 {"id", "name", "prompt_content", "category", "created_at", "updated_at"}
          [] n = "gpt_trends" ->
                 {"id", "title", "trend_content", "idea_content", "created_at",
                  "updated_at"}
          [] n = "gpt_ideas" ->
                 {"id", "trend_id", "idea_content", "created_at", "updated_at"}]

\* trade_ideas has the column idea_price_at_creation.
ideaPriceCol == "idea_price_at_creation" \in schema["trade_ideas"]

\* ---------------------------------------------------------------- helpers
Range(s) == {s[i] : i \in 1..Len(s)}

\* A call of a Database method as its caller sees it.  conn is the state in
\* which the call leaves the connection it opened: conn.close() is the method's
\* last statement before its return, and no method has a try or a finally, so a
\* statement that raises leaves the method with the connection open and its
\* transaction neither committed nor rolled back.
Call(op, args, status, val) ==
    [op |-> op, args |-> args, status |-> status, val |-> val,
     conn |-> IF status = "ok" THEN "closed" ELSE "open"]

\* What a page or a helper of app.py did on its own, with no connection.
PageCall(op, args, status, val) ==
    [op |-> op, args |-> args, status |-> status, val |-> val, conn |-> "none"]

\* The rows of table t whose id is i.
RowWithId(t, i) == {r \in Range(t) : r.id = i}

\* The sequences that hold each element of the set S once.
RECURSIVE Orderings(_)
Orderings(S) ==
    IF S = {} THEN {<<>>}
    ELSE UNION {{<<x>> \o t : t \in Orderings(S \ {x})} : x \in S}

\* LIMIT n on the answer s: its first n rows, and all of them when n < 0.
Limit(s, n) == IF n < 0 \/ n >= Len(s) THEN s ELSE SubSeq(s, 1, n)

\* cursor.fetchone() and `dict(row) if row else None`: the first of the rows
\* the SELECT found, None when it found none.
FetchOne(rows) == IF rows = <<>> THEN NULL ELSE Head(rows)

\* The id an INSERT into table name gets: AUTOINCREMENT never reuses an id.
NextId(name) == seq[name] + 1

HasRoom(name) ==
    seq[name] < CASE name = "trades" -> MaxTrades
                  [] name = "prompts" -> MaxPrompts
                  [] OTHER -> MaxId

\* ------------------------------------------------------------- init_db
\* The store right after Database(): init_db has created every missing table.
\* init_db's trade_ideas has no idea_price_at_creation column; a database file
\* that already held a trade_ideas table with that column keeps it.
Init ==
    /\ now = 0
    /\ schema \in {CreatedSchema, [CreatedSchema EXCEPT !["trade_ideas"] =
                                     @ \cup {"idea_price_at_creation"}]}
    /\ seq = [n \in TableNames |-> 0]
    /\ investment_trends = <<>>
    /\ trade_ideas = <<>>
    /\ trades = <<>>
    /\ prompts = <<>>
    /\ gpt_trends = <<>>
    /\ gpt_ideas = <<>>
    /\ last = Call("init_db", <<>>, "ok", NULL)

\* One second passes.
Tick ==
    /\ now < MaxTime
    /\ now' = now + 1
    /\ UNCHANGED <<schema, seq, tables, last>>

\* init_db with a DROP TABLE IF EXISTS before every CREATE TABLE.
InitDb_DropsFirst ==
    /\ schema' = CreatedSchema
    /\ investment_trends' = <<>>
    /\ trade_ideas' = <<>>
    /\ trades' = <<>>
    /\ prompts' = <<>>
    /\ gpt_trends' = <<>>
    /\ gpt_ideas' = <<>>
    /\ last' = Call("init_db", <<>>, "ok", NULL)
    /\ UNCHANGED <<now, seq>>

\* ALTER TABLE gpt_trends ADD COLUMN idea_content TEXT DEFAULT ''.
AddIdeaContentColumn_DefaultEmpty(rows) ==
    [k \in 1..Len(rows) |->
        [f \in DOMAIN rows[k] \cup {"idea_content"} |->
            IF f \in DOMAIN rows[k] THEN rows[k][f] ELSE ""]]

\* ALTER TABLE gpt_trends ADD COLUMN idea_content TEXT: every row there is
\* reads NULL in the new column.
AddIdeaContentColumn(rows) ==
    [k \in 1..Len(rows) |->
        [f \in DOMAIN rows[k] \cup {"idea_content"} |->
            IF f \in DOMAIN rows[k] THEN rows[k][f] ELSE NULL]]

\* CREATE TABLE IF NOT EXISTS for the six tables, and between the fifth and the
\* sixth the PRAGMA table_info(gpt_trends) probe with its ALTER TABLE.
InitDb ==
    /\ schema' = [n \in TableNames |->
                     IF schema[n] = {} THEN CreatedSchema[n]
                     ELSE IF n = "gpt_trends" THEN schema[n] \cup {"idea_content"}
                     ELSE schema[n]]
    /\ gpt_trends' = IF schema["gpt_trends"] # {}
                        /\ "idea_content" \notin schema["gpt_trends"]
                     THEN AddIdeaContentColumn(gpt_trends)
                     ELSE gpt_trends
    /\ last' = Call("init_db", <<>>, "ok", NULL)
    /\ UNCHANGED <<now, seq, investment_trends, trade_ideas, trades, prompts,
                   gpt_ideas>>

\* A Database object exists only once its constructor has run init_db.
Initialized ==
    /\ \A n \in TableNames : schema[n] # {}
    /\ "idea_content" \in schema["gpt_trends"]

\* ------------------------------------------------------ investment_trends
TrendOn(d) == SelectSeq(investment_trends, LAMBDA r : r.week_start_date = d)

\* INSERT INTO investment_trends: NOT NULL columns and UNIQUE(week_start_date).
TrendInsertOk(d, c) == d # NullNum /\ c # NULL /\ TrendOn(d) = <<>>

\* The SET clause of add_trend's UPDATE.
OverwriteTrend_KeepsContent(r, c) == [r EXCEPT !.updated_at = now]

OverwriteTrend(r, c) == [r EXCEPT !.trend_content = c, !.updated_at = now]

\* add_trend without its look-up, on a table without the UNIQUE clause.
AddTrend_AlwaysInsert(d, c) ==
    /\ HasRoom("investment_trends")
    /\ investment_trends' = Append(investment_trends,
           [id |-> NextId("investment_trends"), week_start_date |-> d,
            trend_content |-> c, created_at |-> now, updated_at |-> now])
    /\ seq' = [seq EXCEPT !["investment_trends"] = @ + 1]
    /\ last' = Call("add_trend", <<d, c>>, "ok", NextId("investment_trends"))
    /\ UNCHANGED <<now, schema, trade_ideas, trades, prompts, gpt_trends, gpt_ideas>>

AddTrend(d, c) ==
    LET existing == TrendOn(d) IN
    /\ IF existing # <<>>
       THEN IF c # NULL
            THEN /\ investment_trends' = [k \in 1..Len(investment_trends) |->
                            LET r == investment_trends[k] IN
                              IF r.week_start_date = d
                              THEN OverwriteTrend(r, c)
                              ELSE r]
                 /\ last' = Call("add_trend", <<d, c>>, "ok", Head(existing).id)
                 /\ seq' = seq
            ELSE /\ last' = Call("add_trend", <<d, c>>, "IntegrityError", NULL)
                 /\ UNCHANGED <<investment_trends, seq>>
       ELSE IF TrendInsertOk(d, c)
            THEN /\ HasRoom("investment_trends")
                 /\ investment_trends' = Append(investment_trends,
                        [id |-> NextId("investment_trends"), week_start_date |-> d,
                         trend_content |-> c, created_at |-> now, updated_at |-> now])
                 /\ seq' = [seq EXCEPT !["investment_trends"] = @ + 1]
                 /\ last' = Call("add_trend", <<d, c>>, "ok", NextId("investment_trends"))
            ELSE /\ last' = Call("add_trend", <<d, c>>, "IntegrityError", NULL)
                 /\ UNCHANGED <<investment_trends, seq>>
    /\ UNCHANGED <<now, schema, trade_ideas, trades, prompts, gpt_trends, gpt_ideas>>

\* ORDER BY week_start_date ASC.
ByWeekAsc(s) ==
    \A i, j \in 1..Len(s) : i < j => s[i].week_start_date <= s[j].week_start_date

\* Whether s, a sequence of rows, is ordered by week_start_date descending.
ByWeekDesc(s) ==
    \A i, j \in 1..Len(s) : i < j => s[i].week_start_date >= s[j].week_start_date

Limits == {0 - 1, 0, 1, 2}

\* SELECT * FROM investment_trends ORDER BY week_start_date DESC LIMIT ?
GetTrends(limit) ==
    /\ \E rows \in {s \in Orderings(Range(investment_trends)) : ByWeekDesc(s)} :
           last' = Call("get_trends", <<limit>>, "ok", Limit(rows, limit))
    /\ UNCHANGED <<now, schema, seq, tables>>

\* get_trend_by_date ending in `return dict(row)`, without the test of row.
GetTrendByDate_NoTest(week_start_date) ==
    /\ last' = IF TrendOn(week_start_date) = <<>>
               THEN [Call("get_trend_by_date", <<week_start_date>>, "TypeError", NULL)
                        EXCEPT !.conn = "closed"]
               ELSE Call("get_trend_by_date", <<week_start_date>>, "ok",
                         Head(TrendOn(week_start_date)))
    /\ UNCHANGED <<now, schema, seq, tables>>

\* SELECT * FROM investment_trends WHERE week_start_date = ?
GetTrendByDate(week_start_date) ==
    /\ last' = Call("get_trend_by_date", <<week_start_date>>, "ok",
                    FetchOne(TrendOn(week_start_date)))
    /\ UNCHANGED <<now, schema, seq, tables>>

\* -------------------------------------------------------------- trade_ideas
\* Argument tuples of add_trade_idea:
\* <<symbol, idea_description, entry_price, target_price, stop_loss, reasoning,
\*   price_at_creation>>.
IdeaArgs ==
    { <<NULL,   "d",  NullNum, NullNum, NullNum, NULL, NullNum>>,
      <<"AAPL", "d",  5,       9,       4,       "r",  7>>,
      <<"AAPL", NULL, NullNum, NullNum, NullNum, NULL, NullNum>> }

Statuses == {"active", "completed", "cancelled"}
Prices == {7}
Ids == 1..MaxId

OtherTablesThanIdeas == <<investment_trends, trades, prompts, gpt_trends, gpt_ideas>>

\* The row INSERT INTO trade_ideas writes: status, created_at and updated_at
\* take their column defaults.
NewIdeaRow(a) ==
    [id |-> NextId("trade_ideas"), symbol |-> a[1], idea_description |-> a[2],
     entry_price |-> a[3], target_price |-> a[4], stop_loss |-> a[5],
     reasoning |-> a[6], status |-> "active", created_at |-> now,
     updated_at |-> now, idea_price_at_creation |-> a[7]]

AddTradeIdea(a) ==
    /\ IF ~ideaPriceCol
       THEN /\ last' = Call("add_trade_idea", a, "OperationalError", NULL)
            /\ UNCHANGED <<trade_ideas, seq>>
       ELSE IF a[2] = NULL
       THEN /\ last' = Call("add_trade_idea", a, "IntegrityError", NULL)
            /\ UNCHANGED <<trade_ideas, seq>>
       ELSE /\ HasRoom("trade_ideas")
            /\ trade_ideas' = Append(trade_ideas, NewIdeaRow(a))
            /\ seq' = [seq EXCEPT !["trade_ideas"] = @ + 1]
            /\ last' = Call("add_trade_idea", a, "ok", NextId("trade_ideas"))
    /\ UNCHANGED <<now, schema, OtherTablesThanIdeas>>

\* Whether s, a sequence of rows, is ordered by created_at descending.
ByCreatedDesc(s) == \A i, j \in 1..Len(s) : i < j => s[i].created_at >= s[j].created_at

\* The answers ORDER BY created_at DESC may give for the rows in S: rows with
\* equal created_at come in an order SQL leaves open.
OrderedByCreatedDesc(S) == {s \in Orderings(S) : ByCreatedDesc(s)}

\* get_trade_ideas with the WHERE clause left out.
GetTradeIdeas_NoFilter(status) ==
    /\ \E rows \in OrderedByCreatedDesc(Range(trade_ideas)) :
           last' = Call("get_trade_ideas", <<status>>, "ok", rows)
    /\ UNCHANGED <<now, schema, seq, tables>>

\* `if status:` takes None and '' alike for "no filter".
GetTradeIdeas(status) ==
    /\ LET matching == IF status # NULL /\ status # ""
                       THEN {r \in Range(trade_ideas) : r.status = status}
                       ELSE Range(trade_ideas)
       IN \E rows \in OrderedByCreatedDesc(matching) :
              last' = Call("get_trade_ideas", <<status>>, "ok", rows)
    /\ UNCHANGED <<now, schema, seq, tables>>

UpdateTradeIdeaStatus(idea_id, status) ==
    /\ trade_ideas' = [k \in 1..Len(trade_ideas) |->
                            LET r == trade_ideas[k] IN
                              IF r.id = idea_id
                              THEN [r EXCEPT !.status = status,
                                        !.updated_at = now]
                              ELSE r]
    /\ last' = Call("update_trade_idea_status", <<idea_id, status>>, "ok", NULL)
    /\ UNCHANGED <<now, schema, seq, OtherTablesThanIdeas>>

\* The DELETE aimed at the trades table.
DeleteTradeIdea_FromTrades(idea_id) ==
    /\ trades' = SelectSeq(trades, LAMBDA r : r.id # idea_id)
    /\ last' = Call("delete_trade_idea", <<idea_id>>, "ok", NULL)
    /\ UNCHANGED <<now, schema, seq, investment_trends, trade_ideas, prompts,
                   gpt_trends, gpt_ideas>>

DeleteTradeIdea(idea_id) ==
    /\ trade_ideas' = SelectSeq(trade_ideas, LAMBDA r : r.id # idea_id)
    /\ last' = Call("delete_trade_idea", <<idea_id>>, "ok", NULL)
    /\ UNCHANGED <<now, schema, seq, OtherTablesThanIdeas>>

\* The price UPDATE with the status UPDATE's updated_at = CURRENT_TIMESTAMP.
UpdateTradeIdeaPriceAtCreation_Touches(idea_id, price) ==
    /\ IF ~ideaPriceCol
       THEN /\ last' = Call("update_trade_idea_price_at_creation",
                            <<idea_id, price>>, "OperationalError", NULL)
            /\ UNCHANGED trade_ideas
       ELSE /\ trade_ideas' = [k \in 1..Len(trade_ideas) |->
                            LET r == trade_ideas[k] IN
                              IF r.id = idea_id
                              THEN [r EXCEPT !.idea_price_at_creation = price,
                                        !.updated_at = now]
                              ELSE r]
            /\ last' = Call("update_trade_idea_price_at_creation",
                            <<idea_id, price>>, "ok", NULL)
    /\ UNCHANGED <<now, schema, seq, OtherTablesThanIdeas>>

UpdateTradeIdeaPriceAtCreation(idea_id, price) ==
    /\ IF ~ideaPriceCol
       THEN /\ last' = Call("update_trade_idea_price_at_creation",
                            <<idea_id, price>>, "OperationalError", NULL)
            /\ UNCHANGED trade_ideas
       ELSE /\ trade_ideas' = [k \in 1..Len(trade_ideas) |->
                            LET r == trade_ideas[k] IN
                              IF r.id = idea_id
                              THEN [r EXCEPT !.idea_price_at_creation = price]
                              ELSE r]
            /\ last' = Call("update_trade_idea_price_at_creation",
                            <<idea_id, price>>, "ok", NULL)
    /\ UNCHANGED <<now, schema, seq, OtherTablesThanIdeas>>

NextIdeas ==
    \/ Tick
    \/ \E a \in IdeaArgs : AddTradeIdea(a)
    \/ \E s \in Statuses \cup {NULL, ""} : GetTradeIdeas(s)
    \/ \E i \in Ids, s \in Statuses : UpdateTradeIdeaStatus(i, s)
    \/ \E i \in Ids : DeleteTradeIdea(i)
    \/ \E i \in Ids, p \in Prices : UpdateTradeIdeaPriceAtCreation(i, p)

SpecIdeas == Init /\ [][NextIdeas]_vars

\* ------------------------------------------------------------------- trades
\* amount is a DECIMAL column: SQLite keeps a non-integral number as a binary
\* floating-point REAL, and SUM() and Python's + and - round every result to
\* the significand.  An amount n of the model is n units of the last place.
RECURSIVE Ulp(_)
Ulp(x) == IF x < 2 ^ MantBits THEN 1 ELSE 2 * Ulp(x \div 2)

\* x >= 0 rounded to the nearest representable number, ties to even.
RoundNat(x) ==
    LET u == Ulp(x)
        q == x \div u
        r == x % u
    IN IF 2 * r > u \/ (2 * r = u /\ q % 2 = 1) THEN (q + 1) * u ELSE q * u

Round(x) == IF x >= 0 THEN RoundNat(x) ELSE 0 - RoundNat(0 - x)

FAdd(a, b) == Round(a + b)
FSub(a, b) == Round(a - b)
\* Python's * on two floats.
FMul(a, b) == Round(a * b)

TradeTypes == {"buy", "sell"}
Amounts == {1, 2, 7}
TradeDates == {NullNum, 1}
TicksPerDay == 2

\* datetime.now().strftime("%Y-%m-%d")
Today == now \div TicksPerDay

OtherTablesThanTrades == <<investment_trends, trade_ideas, prompts, gpt_trends, gpt_ideas>>

\* The store working the amount out of quantity and price itself.
AddTrade_Recomputes(symbol, trade_type, quantity, price, amount, reasoning, trade_date) ==
    /\ HasRoom("trades")
    /\ trades' = Append(trades,
           [id |-> NextId("trades"), symbol |-> symbol, trade_type |-> trade_type,
            quantity |-> quantity, price |-> price, amount |-> FMul(quantity, price),
            reasoning |-> reasoning,
            trade_date |-> IF trade_date = NullNum THEN Today ELSE trade_date,
            created_at |-> now])
    /\ seq' = [seq EXCEPT !["trades"] = @ + 1]
    /\ last' = Call("add_trade",
                    <<symbol, trade_type, quantity, price, amount, reasoning, trade_date>>,
                    "ok", NextId("trades"))
    /\ UNCHANGED <<now, schema, OtherTablesThanTrades>>

AddTrade(symbol, trade_type, quantity, price, amount, reasoning, trade_date) ==
    /\ HasRoom("trades")
    /\ trades' = Append(trades,
           [id |-> NextId("trades"), symbol |-> symbol, trade_type |-> trade_type,
            quantity |-> quantity, price |-> price, amount |-> amount,
            reasoning |-> reasoning,
            trade_date |-> IF trade_date = NullNum THEN Today ELSE trade_date,
            created_at |-> now])
    /\ seq' = [seq EXCEPT !["trades"] = @ + 1]
    /\ last' = Call("add_trade",
                    <<symbol, trade_type, quantity, price, amount, reasoning, trade_date>>,
                    "ok", NextId("trades"))
    /\ UNCHANGED <<now, schema, OtherTablesThanTrades>>

\* Whether s is ordered by trade_date descending and, on equal trade_date, by
\* created_at descending.
ByTradeDateThenCreatedDesc(s) ==
    \A i, j \in 1..Len(s) :
        i < j => \/ s[i].trade_date > s[j].trade_date
                 \/ /\ s[i].trade_date = s[j].trade_date
                    /\ s[i].created_at >= s[j].created_at

\* SELECT * FROM trades ORDER BY trade_date DESC, created_at DESC LIMIT ?:
\* created_at counts seconds, and rows equal in both keys come in an order
\* SQL leaves open.
GetTrades(limit) ==
    /\ \E rows \in {s \in Orderings(Range(trades)) : ByTradeDateThenCreatedDesc(s)} :
           last' = Call("get_trades", <<limit>>, "ok", Limit(rows, limit))
    /\ UNCHANGED <<now, schema, seq, tables>>

\* SELECT SUM(amount) over rows, in rowid order: NULL when there is no row.
RECURSIVE SumAmount(_, _)
SumAmount(rows, acc) ==
    IF rows = <<>> THEN acc
    ELSE SumAmount(Tail(rows), FAdd(acc, Head(rows).amount))

SqlSum(rows) == IF rows = <<>> THEN NullNum ELSE SumAmount(rows, 0)

\* Python's `x or 0` on a fetched aggregate.
OrZero(x) == IF x = NullNum \/ x = 0 THEN 0 ELSE x

\* The aggregate's WHERE clause left out.
TradesOfType_All(t) == trades

TradesOfType(t) == SelectSeq(trades, LAMBDA r : r.trade_type = t)

Statistics ==
    LET total_trades == Len(trades)
        total_amount == OrZero(SqlSum(trades))
        buy_amount == OrZero(SqlSum(TradesOfType("buy")))
        sell_amount == OrZero(SqlSum(TradesOfType("sell")))
    IN [total_trades |-> total_trades, total_amount |-> total_amount,
        buy_amount |-> buy_amount, sell_amount |-> sell_amount,
        net_amount |-> FSub(buy_amount, sell_amount)]

GetTradeStatistics ==
    /\ last' = Call("get_trade_statistics", <<>>, "ok", Statistics)
    /\ UNCHANGED <<now, schema, seq, tables>>

NextTrades ==
    \/ Tick
    \/ \E t \in TradeTypes, a \in Amounts, d \in TradeDates :
           AddTrade("AAPL", t, 1, 1, a, NULL, d)
    \/ GetTradeStatistics

SpecTrades == Init /\ [][NextTrades]_vars

\* Recording trades and listing them.
NextTradeList ==
    \/ Tick
    \/ \E t \in TradeTypes, d \in TradeDates : AddTrade("AAPL", t, 1, 1, 2, NULL, d)
    \/ \E limit \in Limits : GetTrades(limit)

SpecTradeList == Init /\ [][NextTradeList]_vars

\* ------------------------------------------------------------------ prompts
\* Argument tuples <<name, prompt_content, category>>.
PromptArgs == { <<"n", "p", "general">>, <<"m", "q", "macro">> }

OtherTablesThanPrompts == <<investment_trends, trade_ideas, trades, gpt_trends, gpt_ideas>>

AddPrompt(a) ==
    /\ HasRoom("prompts")
    /\ prompts' = Append(prompts,
           [id |-> NextId("prompts"), name |-> a[1], prompt_content |-> a[2],
            category |-> a[3], created_at |-> now, updated_at |-> now])
    /\ seq' = [seq EXCEPT !["prompts"] = @ + 1]
    /\ last' = Call("add_prompt", a, "ok", NextId("prompts"))
    /\ UNCHANGED <<now, schema, OtherTablesThanPrompts>>

UpdatePrompt(prompt_id, a) ==
    /\ prompts' = [k \in 1..Len(prompts) |->
                            LET r == prompts[k] IN
                              IF r.id = prompt_id
                              THEN [r EXCEPT !.name = a[1], !.prompt_content = a[2],
                                        !.category = a[3],
                                        !.updated_at = now]
                              ELSE r]
    /\ last' = Call("update_prompt", <<prompt_id>> \o a, "ok", NULL)
    /\ UNCHANGED <<now, schema, seq, OtherTablesThanPrompts>>

DeletePrompt(prompt_id) ==
    /\ prompts' = SelectSeq(prompts, LAMBDA r : r.id # prompt_id)
    /\ last' = Call("delete_prompt", <<prompt_id>>, "ok", NULL)
    /\ UNCHANGED <<now, schema, seq, OtherTablesThanPrompts>>

\* SELECT * FROM prompts WHERE id = ?
GetPromptById(prompt_id) ==
    /\ last' = Call("get_prompt_by_id", <<prompt_id>>, "ok",
                    FetchOne(SelectSeq(prompts, LAMBDA r : r.id = prompt_id)))
    /\ UNCHANGED <<now, schema, seq, tables>>

\* The texts of the name and category columns in the order of SQLite's BINARY
\* collation (byte order: capitals before small letters).
Collation == <<"", "Z", "general", "m", "macro", "n">>

\* The place of text x in that order.
Rank(x) == CHOOSE k \in 1..Len(Collation) : Collation[k] = x

\* ORDER BY name DESC.
ByNameDesc(s) ==
    \A i, j \in 1..Len(s) : i < j => Rank(s[i].name) >= Rank(s[j].name)

\* Whether s is ordered by name ascending.
ByNameAsc(s) ==
    \A i, j \in 1..Len(s) : i < j => Rank(s[i].name) <= Rank(s[j].name)

\* Whether s is ordered by category ascending and, on equal category, by name
\* ascending.
ByCategoryThenNameAsc(s) ==
    \A i, j \in 1..Len(s) :
        i < j => \/ Rank(s[i].category) < Rank(s[j].category)
                 \/ /\ s[i].category = s[j].category
                    /\ Rank(s[i].name) <= Rank(s[j].name)

\* get_prompts: `if category:` takes None and '' alike for "no category".
GetPrompts(category) ==
    /\ IF category # NULL /\ category # ""
       THEN \E rows \in {s \in Orderings({r \in Range(prompts) : r.category = category}) :
                             ByNameAsc(s)} :
                last' = Call("get_prompts", <<category>>, "ok", rows)
       ELSE \E rows \in {s \in Orderings(Range(prompts)) : ByCategoryThenNameAsc(s)} :
                last' = Call("get_prompts", <<category>>, "ok", rows)
    /\ UNCHANGED <<now, schema, seq, tables>>

PromptNames == {"Z", "m", "n"}
Categories == {"general", "macro"}

NextPrompts ==
    \/ \E n \in PromptNames, c \in Categories : AddPrompt(<<n, "p", c>>)
    \/ \E i \in Ids, n \in PromptNames, c \in Categories : UpdatePrompt(i, <<n, "p", c>>)
    \/ \E i \in Ids : DeletePrompt(i)
    \/ \E c \in Categories \cup {NULL, ""} : GetPrompts(c)

SpecPrompts == Init /\ [][NextPrompts]_vars

\* ------------------------------------------------------ gpt_trends, gpt_ideas
\* Argument tuples <<title, trend_content, idea_content>>; idea_content None is
\* the parameter left out.
GptArgs == { <<"t", "a", NULL>>, <<"u", "b", "x">>, <<"u", "b", "">> }
IdeaTexts == {"x"}

OtherTablesThanGpt == <<investment_trends, trade_ideas, trades, prompts>>

AddGptTrend(a) ==
    /\ HasRoom("gpt_trends")
    /\ gpt_trends' = Append(gpt_trends,
           [id |-> NextId("gpt_trends"), title |-> a[1], trend_content |-> a[2],
            idea_content |-> a[3], created_at |-> now, updated_at |-> now])
    /\ seq' = [seq EXCEPT !["gpt_trends"] = @ + 1]
    /\ last' = Call("add_gpt_trend", a, "ok", NextId("gpt_trends"))
    /\ UNCHANGED <<now, schema, gpt_ideas, OtherTablesThanGpt>>

\* SELECT * FROM gpt_trends WHERE id = ?
GetGptTrendById(trend_id) ==
    /\ last' = Call("get_gpt_trend_by_id", <<trend_id>>, "ok",
                    FetchOne(SelectSeq(gpt_trends, LAMBDA r : r.id = trend_id)))
    /\ UNCHANGED <<now, schema, seq, tables>>

\* update_gpt_trend testing `if idea_content:` in place of `is not None`.
UpdateGptTrend_Truthy(trend_id, a) ==
    /\ gpt_trends' = [k \in 1..Len(gpt_trends) |->
                            LET r == gpt_trends[k] IN
                              IF r.id = trend_id THEN
                              IF a[3] # NULL /\ a[3] # ""
                              THEN [r EXCEPT !.title = a[1], !.trend_content = a[2],
                                        !.idea_content = a[3],
                                        !.updated_at = now]
                              ELSE [r EXCEPT !.title = a[1], !.trend_content = a[2],
                                        !.updated_at = now]
                              ELSE r]
    /\ last' = Call("update_gpt_trend", <<trend_id>> \o a, "ok", NULL)
    /\ UNCHANGED <<now, schema, seq, gpt_ideas, OtherTablesThanGpt>>

UpdateGptTrend(trend_id, a) ==
    /\ gpt_trends' = [k \in 1..Len(gpt_trends) |->
                            LET r == gpt_trends[k] IN
                              IF r.id = trend_id THEN
                              IF a[3] # NULL
                              THEN [r EXCEPT !.title = a[1], !.trend_content = a[2],
                                        !.idea_content = a[3],
                                        !.updated_at = now]
                              ELSE [r EXCEPT !.title = a[1], !.trend_content = a[2],
                                        !.updated_at = now]
                              ELSE r]
    /\ last' = Call("update_gpt_trend", <<trend_id>> \o a, "ok", NULL)
    /\ UNCHANGED <<now, schema, seq, gpt_ideas, OtherTablesThanGpt>>

UpdateGptTrendIdea(trend_id, idea_content) ==
    /\ gpt_trends' = [k \in 1..Len(gpt_trends) |->
                            LET r == gpt_trends[k] IN
                              IF r.id = trend_id
                              THEN [r EXCEPT !.idea_content = idea_content,
                                        !.updated_at = now]
                              ELSE r]
    /\ last' = Call("update_gpt_trend_idea", <<trend_id, idea_content>>, "ok", NULL)
    /\ UNCHANGED <<now, schema, seq, gpt_ideas, OtherTablesThanGpt>>

\* delete_gpt_trend without the DELETE FROM gpt_ideas.
DeleteGptTrend_NoCascade(trend_id) ==
    /\ gpt_trends' = SelectSeq(gpt_trends, LAMBDA r : r.id # trend_id)
    /\ last' = Call("delete_gpt_trend", <<trend_id>>, "ok", NULL)
    /\ UNCHANGED <<now, schema, seq, gpt_ideas, OtherTablesThanGpt>>

\* The first DELETE without its WHERE clause.
DeleteGptTrend_AllIdeas(trend_id) ==
    /\ gpt_ideas' = <<>>
    /\ gpt_trends' = SelectSeq(gpt_trends, LAMBDA r : r.id # trend_id)
    /\ last' = Call("delete_gpt_trend", <<trend_id>>, "ok", NULL)
    /\ UNCHANGED <<now, schema, seq, OtherTablesThanGpt>>

DeleteGptTrend(trend_id) ==
    /\ gpt_ideas' = SelectSeq(gpt_ideas, LAMBDA r : r.trend_id # trend_id)
    /\ gpt_trends' = SelectSeq(gpt_trends, LAMBDA r : r.id # trend_id)
    /\ last' = Call("delete_gpt_trend", <<trend_id>>, "ok", NULL)
    /\ UNCHANGED <<now, schema, seq, OtherTablesThanGpt>>

\* The FOREIGN KEY of gpt_ideas is declared but not enforced: no connection
\* turns PRAGMA foreign_keys on.
AddGptIdea(trend_id, idea_content) ==
    /\ HasRoom("gpt_ideas")
    /\ gpt_ideas' = Append(gpt_ideas,
           [id |-> NextId("gpt_ideas"), trend_id |-> trend_id,
            idea_content |-> idea_content, created_at |-> now, updated_at |-> now])
    /\ seq' = [seq EXCEPT !["gpt_ideas"] = @ + 1]
    /\ last' = Call("add_gpt_idea", <<trend_id, idea_content>>, "ok", NextId("gpt_ideas"))
    /\ UNCHANGED <<now, schema, gpt_trends, OtherTablesThanGpt>>

\* What SELECT * FROM gpt_ideas WHERE trend_id = ? ORDER BY created_at DESC may
\* answer on the table ideas.
IdeasByTrend(ideas, trend_id) ==
    OrderedByCreatedDesc({r \in Range(ideas) : r.trend_id = trend_id})

GetGptIdeasByTrend(trend_id) ==
    /\ \E rows \in IdeasByTrend(gpt_ideas, trend_id) :
           last' = Call("get_gpt_ideas_by_trend", <<trend_id>>, "ok", rows)
    /\ UNCHANGED <<now, schema, seq, tables>>

UpdateGptIdea(idea_id, idea_content) ==
    /\ gpt_ideas' = [k \in 1..Len(gpt_ideas) |->
                            LET r == gpt_ideas[k] IN
                              IF r.id = idea_id
                              THEN [r EXCEPT !.idea_content = idea_content,
                                        !.updated_at = now]
                              ELSE r]
    /\ last' = Call("update_gpt_idea", <<idea_id, idea_content>>, "ok", NULL)
    /\ UNCHANGED <<now, schema, seq, gpt_trends, OtherTablesThanGpt>>

DeleteGptIdea(idea_id) ==
    /\ gpt_ideas' = SelectSeq(gpt_ideas, LAMBDA r : r.id # idea_id)
    /\ last' = Call("delete_gpt_idea", <<idea_id>>, "ok", NULL)
    /\ UNCHANGED <<now, schema, seq, gpt_trends, OtherTablesThanGpt>>

NextGpt ==
    \/ Tick
    \/ \E a \in GptArgs : AddGptTrend(a)
    \/ \E i \in Ids, a \in GptArgs : UpdateGptTrend(i, a)
    \/ \E i \in Ids : DeleteGptTrend(i)
    \/ \E i \in Ids, c \in IdeaTexts : AddGptIdea(i, c)
    \/ \E i \in Ids : GetGptIdeasByTrend(i)

SpecGpt == Init /\ [][NextGpt]_vars

\* ------------------------------------------- a database file of an older version
\* The rows a gpt_trends table without the idea_content column may hold.
LegacyTitles == {"old", "older"}

LegacyGptRows ==
    UNION {[1..n -> {[id |-> 0, title |-> t, trend_content |-> c,
                      created_at |-> 0, updated_at |-> 0] :
                         t \in LegacyTitles, c \in Contents}] : n \in 0..MaxId}

\* The file is new (no table), or was written by a version whose gpt_trends had
\* no idea_content column and which may not have had gpt_ideas.
LegacySchemas ==
    {[n \in TableNames |-> {}]}
    \cup {[CreatedSchema EXCEPT !["gpt_trends"] = @ \ {"idea_content"},
                                !["gpt_ideas"] = g] :
              g \in {{}, CreatedSchema["gpt_ideas"]}}

\* The file before Database() opens it.
InitLegacy ==
    /\ now = 0
    /\ schema \in LegacySchemas
    /\ \E rows \in LegacyGptRows :
           /\ schema["gpt_trends"] = {} => rows = <<>>
           /\ gpt_trends = [k \in 1..Len(rows) |-> [rows[k] EXCEPT !.id = k]]
    /\ seq = [n \in TableNames |-> IF n = "gpt_trends" THEN Len(gpt_trends) ELSE 0]
    /\ investment_trends = <<>>
    /\ trade_ideas = <<>>
    /\ trades = <<>>
    /\ prompts = <<>>
    /\ gpt_ideas = <<>>
    /\ last = PageCall("sqlite3.connect", <<>>, "ok", NULL)

NextMigrate ==
    \/ Tick
    \/ InitDb
    \/ Initialized /\ \E a \in GptArgs : AddGptTrend(a)
    \/ Initialized /\ \E i \in Ids, a \in GptArgs : UpdateGptTrend(i, a)
    \/ Initialized /\ \E i \in Ids : DeleteGptTrend(i)

SpecMigrate == InitLegacy /\ [][NextMigrate]_vars

NextTrends ==
    \/ Tick
    \/ \E d \in Dates, c \in Contents \cup {NULL} : AddTrend(d, c)
    \/ \E limit \in Limits : GetTrends(limit)

SpecTrends == Init /\ [][NextTrends]_vars

\* ------------------------------------------------------------ the whole store
\* Every operation that writes, in any order, over all six tables at once.
TotalInserted == seq["investment_trends"] + seq["trade_ideas"] + seq["trades"]
                 + seq["prompts"] + seq["gpt_trends"] + seq["gpt_ideas"]

Budget == TotalInserted < MaxTotal

Next ==
    \/ Tick
    \/ InitDb
    \/ Budget /\ \E d \in Dates : AddTrend(d, "a")
    \/ Budget /\ AddTradeIdea(<<"AAPL", "d", 5, 9, 4, "r", 7>>)
    \/ \E i \in Ids : UpdateTradeIdeaStatus(i, "completed")
    \/ \E i \in Ids : DeleteTradeIdea(i)
    \/ \E i \in Ids, p \in Prices : UpdateTradeIdeaPriceAtCreation(i, p)
    \/ Budget /\ \E t \in TradeTypes : AddTrade("AAPL", t, 1, 1, 2, NULL, NullNum)
    \/ GetTradeStatistics
    \/ Budget /\ AddPrompt(<<"n", "p", "general">>)
    \/ \E i \in Ids : UpdatePrompt(i, <<"m", "q", "macro">>)
    \/ \E i \in Ids : DeletePrompt(i)
    \/ Budget /\ AddGptTrend(<<"t", "a", NULL>>)
    \/ \E i \in Ids : UpdateGptTrend(i, <<"u", "b", "x">>)
    \/ \E i \in Ids, c \in IdeaTexts : UpdateGptTrendIdea(i, c)
    \/ \E i \in Ids : DeleteGptTrend(i)
    \/ Budget /\ \E i \in Ids, c \in IdeaTexts : AddGptIdea(i, c)
    \/ \E i \in Ids : UpdateGptIdea(i, "y")
    \/ \E i \in Ids : DeleteGptIdea(i)

Spec == Init /\ [][Next]_vars

\* ------------------------------------------------------------ app.py: the pages
\* What the text widgets may hold, and str.strip() on it.
Texts == {"", " ", "d", " d "}

Strip(s) == CASE s = " " -> "" [] s = " d " -> "d" [] OTHER -> s

\* The button was pressed and the page showed st.error without calling the
\* Database.
Rejected(button, form) ==
    /\ last' = PageCall(button, form, "not attempted", NULL)
    /\ UNCHANGED <<now, schema, seq, tables>>

\* The storage engine fails the call (disk unavailable, database is locked):
\* nothing was committed.
StorageFails(op, args) ==
    /\ last' = Call(op, args, "OperationalError", NULL)
    /\ UNCHANGED <<now, schema, seq, tables>>

\* Save Idea tested only `if idea_description:`.
ValidIdea_Unstripped(description) == description # ""

ValidIdea(description) == Strip(description) # ""

\* Save Idea handing the Status selectbox, the form's fifth field, on to the
\* stored row.
SaveIdea_StoresStatus(form, fetched) ==
    LET symbol == form[1]
        price_at_creation == IF symbol # "" /\ Strip(symbol) # "" THEN fetched
                             ELSE NullNum
        args == <<IF symbol # "" THEN symbol ELSE NULL,
                  form[2],
                  IF form[3] > 0 THEN form[3] ELSE NullNum,
                  NullNum,
                  NullNum,
                  IF Strip(form[4]) # "" THEN form[4] ELSE NULL,
                  price_at_creation>>
    IN IF ValidIdea(form[2])
       THEN /\ ideaPriceCol
            /\ HasRoom("trade_ideas")
            /\ trade_ideas' = Append(trade_ideas,
                                     [NewIdeaRow(args) EXCEPT !.status = form[5]])
            /\ seq' = [seq EXCEPT !["trade_ideas"] = @ + 1]
            /\ last' = Call("add_trade_idea", args, "ok", NextId("trade_ideas"))
            /\ UNCHANGED <<now, schema, OtherTablesThanIdeas>>
       ELSE Rejected("Save Idea", form)

\* form = <<symbol, idea_description, entry_price, reasoning>>; fetched is the
\* close price yfinance gave, NullNum when it gave none or raised.
SaveIdea(form, fetched) ==
    LET symbol == form[1]
        price_at_creation == IF symbol # "" /\ Strip(symbol) # "" THEN fetched
                             ELSE NullNum
        args == <<IF symbol # "" THEN symbol ELSE NULL,
                  form[2],
                  IF form[3] > 0 THEN form[3] ELSE NullNum,
                  NullNum,
                  NullNum,
                  IF Strip(form[4]) # "" THEN form[4] ELSE NULL,
                  price_at_creation>>
    IN IF ValidIdea(form[2])
       THEN \/ AddTradeIdea(args)
            \/ StorageFails("add_trade_idea", args)
       ELSE Rejected("Save Idea", form)

\* Save Trade without the test of price.
ValidTrade_NoPriceCheck(symbol, quantity, price) ==
    Strip(symbol) # "" /\ quantity > 0

ValidTrade(symbol, quantity, price) ==
    Strip(symbol) # "" /\ quantity > 0 /\ price > 0

\* form = <<symbol, trade_type, quantity, price, reasoning, trade_date>>.
SaveTrade(form) ==
    LET quantity == form[3]
        price == form[4]
        calculated_amount == IF quantity > 0 /\ price > 0
                             THEN FMul(quantity, price) ELSE 0
        reasoning == IF Strip(form[5]) # "" THEN form[5] ELSE NULL
    IN IF ValidTrade(form[1], quantity, price)
       THEN \/ AddTrade(form[1], form[2], quantity, price, calculated_amount,
                        reasoning, form[6])
            \/ StorageFails("add_trade",
                            <<form[1], form[2], quantity, price, calculated_amount,
                              reasoning, form[6]>>)
       ELSE Rejected("Save Trade", form)

\* The GPT Trends page tested only the title.
ValidGptTrend_TitleOnly(title, content) == Strip(title) # ""

ValidGptTrend(title, content) == Strip(title) # "" /\ Strip(content) # ""

\* form = <<title, trend_content, idea_content>>.
SaveGptTrend(form) ==
    LET args == <<Strip(form[1]), Strip(form[2]),
                  IF Strip(form[3]) # "" THEN Strip(form[3]) ELSE NULL>>
    IN IF ValidGptTrend(form[1], form[2])
       THEN \/ AddGptTrend(args)
            \/ StorageFails("add_gpt_trend", args)
       ELSE Rejected("Save Trend & Idea", form)

\* The trend to edit is picked among the rows get_gpt_trends lists.
UpdateGptTrendPage(selected_trend_id, form) ==
    LET args == <<Strip(form[1]), Strip(form[2]),
                  IF form[3] # "" /\ Strip(form[3]) # "" THEN Strip(form[3])
                  ELSE NULL>>
    IN /\ RowWithId(gpt_trends, selected_trend_id) # {}
       /\ IF ValidGptTrend(form[1], form[2])
          THEN \/ UpdateGptTrend(selected_trend_id, args)
               \/ StorageFails("update_gpt_trend", <<selected_trend_id>> \o args)
          ELSE Rejected("Update Trend & Idea", <<selected_trend_id>> \o form)

\* The Prompt Library page tested only the name.
ValidPrompt_NameOnly(name, content) == Strip(name) # ""

ValidPrompt(name, content) == Strip(name) # "" /\ Strip(content) # ""

\* form = <<name, prompt_content, category>>.
SavePrompt(form) ==
    LET args == <<Strip(form[1]), Strip(form[2]), form[3]>>
    IN IF ValidPrompt(form[1], form[2])
       THEN \/ AddPrompt(args)
            \/ StorageFails("add_prompt", args)
       ELSE Rejected("Save Prompt", form)

UpdatePromptPage(selected_prompt_id, form) ==
    LET args == <<Strip(form[1]), Strip(form[2]), form[3]>>
    IN /\ RowWithId(prompts, selected_prompt_id) # {}
       /\ IF ValidPrompt(form[1], form[2])
          THEN \/ UpdatePrompt(selected_prompt_id, args)
               \/ StorageFails("update_prompt", <<selected_prompt_id>> \o args)
          ELSE Rejected("Update Prompt", <<selected_prompt_id>> \o form)

\* The Database calls app.py makes inside try: ... except Exception.
CaughtCalls == {"add_prompt", "update_prompt", "delete_prompt"}

\* How the page run that made the latest call went on.
PageRun ==
    IF last.status \in {"ok", "not attempted"} THEN "rendered"
    ELSE IF last.op \in CaughtCalls THEN "error message"
    ELSE "terminated"

\* What the forms may hold when a button is pressed: number_input has
\* min_value 0.
IdeaForms == {<<sy, d, 5, "">> : sy \in {"", "AAPL"}, d \in {"", " ", "d"}}
Quantities == {0, 1, 3}
TradePrices == {0, 2, 3}
TradeForms ==
    {<<sy, t, q, p, "", 1>> :
        sy \in {" ", "AAPL"}, t \in TradeTypes, q \in Quantities, p \in TradePrices}
GptForms == {<<t, c, i>> : t \in {"", "d"}, c \in {" ", " d "}, i \in {"", "d"}}
GptEditForms == {<<t, c, " ">> : t \in {" ", " d "}, c \in {"", "d"}}
PromptForms == {<<n, c, "general">> : n \in {" ", "d"}, c \in {"", "d"}}
PromptEditForms == {<<n, c, "macro">> : n \in {"", " d "}, c \in {" ", "d"}}

NextApp ==
    \/ Budget /\ \E form \in IdeaForms, fetched \in {NullNum, 7} : SaveIdea(form, fetched)
    \/ Budget /\ \E form \in TradeForms : SaveTrade(form)
    \/ Budget /\ \E form \in GptForms : SaveGptTrend(form)
    \/ \E k \in Ids, form \in GptEditForms : UpdateGptTrendPage(k, form)
    \/ Budget /\ \E form \in PromptForms : SavePrompt(form)
    \/ \E k \in Ids, form \in PromptEditForms : UpdatePromptPage(k, form)

SpecApp == Init /\ [][NextApp]_vars

\* ------------------------------------------------- app.py: the Stock Prices page
\* What the provider does for one symbol: a price history, an empty history, or
\* an exception out of yf.Ticker(...).history / .info.
ProviderOutcomes == {"data", "empty", "raise"}

\* The symbols entered, by position, each with what the provider does for it.
SymbolLists == UNION {[1..n -> ProviderOutcomes] : n \in 1..MaxSymbols}

\* One rendered block: symbol is the position of the symbol it is about, 0 for
\* a block about the whole view.
Block(symbol, shows) == [symbol |-> symbol, shows |-> shows]

\* for symbol in symbols: try: ... except Exception: st.error(...)
PriceChartView(outcomes) ==
    [k \in 1..Len(outcomes) |->
        IF outcomes[k] = "data" THEN Block(k, "chart") ELSE Block(k, "error")]

DetailsView(outcomes) ==
    [k \in 1..Len(outcomes) |->
        IF outcomes[k] = "data" THEN Block(k, "details") ELSE Block(k, "error")]

\* One try around the loop over the symbols and the rendering after it.
ComparisonView(outcomes) ==
    LET loaded == SelectSeq([k \in 1..Len(outcomes) |-> k],
                            LAMBDA k : outcomes[k] = "data")
    IN IF Len(outcomes) <= 1 THEN <<Block(0, "info")>>
       ELSE IF \E k \in 1..Len(outcomes) : outcomes[k] = "raise"
            THEN <<Block(0, "error")>>
       ELSE IF loaded # <<>>
            THEN [j \in 1..Len(loaded) |-> Block(loaded[j], "comparison")]
       ELSE <<Block(0, "error")>>

ViewPriceChart(outcomes) ==
    /\ last' = PageCall("Price Chart", outcomes, "ok", PriceChartView(outcomes))
    /\ UNCHANGED <<now, schema, seq, tables>>

ViewDetails(outcomes) ==
    /\ last' = PageCall("Details", outcomes, "ok", DetailsView(outcomes))
    /\ UNCHANGED <<now, schema, seq, tables>>

ViewComparison(outcomes) ==
    /\ last' = PageCall("Comparison", outcomes, "ok", ComparisonView(outcomes))
    /\ UNCHANGED <<now, schema, seq, tables>>

NextMarket ==
    \/ Tick
    \/ \E outcomes \in SymbolLists : ViewPriceChart(outcomes)
    \/ \E outcomes \in SymbolLists : ViewDetails(outcomes)
    \/ \E outcomes \in SymbolLists : ViewComparison(outcomes)

SpecMarket == Init /\ [][NextMarket]_vars

\* ------------------------------------------------- app.py: search_stock_symbol
\* quotes[:10]
SearchLimit == 10

QuoteTypes == <<"EQUITY", "ETF", "INDEX", "">>

\* The quotes of an answer: n entries, the k-th of type QuoteTypes[(k*a+b)%4+1],
\* the m-th (if any) not a JSON object.
QuoteLists ==
    {[k \in 1..n |-> [symbol |-> k, isDict |-> k # m,
                      quoteType |-> QuoteTypes[((k * a + b) % 4) + 1]]] :
        n \in 0..MaxQuotes, a \in 0..3, b \in 0..3, m \in {0, 1, SearchLimit, SearchLimit + 1}}

\* What requests.get may give: status 0 stands for no response (timeout,
\* transport failure: requests.get raises); body says what response.json() finds.
Responses ==
    {[status |-> st, body |-> "quotes", quotes |-> <<>>] : st \in {0, 404, 500}}
    \cup {[status |-> 200, body |-> b, quotes |-> <<>>] :
              b \in {"not json", "no quotes key", "quotes not a list"}}
    \cup {[status |-> 200, body |-> "quotes", quotes |-> q] : q \in QuoteLists}

\* The loop over every quote of the answer.
FirstQuotes_All(quotes) == quotes

FirstQuotes(quotes) ==
    SubSeq(quotes, 1, IF Len(quotes) < SearchLimit THEN Len(quotes) ELSE SearchLimit)

\* The list search_stock_symbol returns: every exception inside the try ends in
\* `return []`, a status other than 200 in the last line's `return []`.
SearchResults(response) ==
    IF response.status # 200 THEN <<>>
    ELSE IF response.body \in {"not json", "quotes not a list"} THEN <<>>
    ELSE IF response.body = "no quotes key" THEN <<>>
    ELSE LET first == FirstQuotes(response.quotes)
         IN IF \E k \in 1..Len(first) : ~first[k].isDict THEN <<>>
            ELSE SelectSeq(first, LAMBDA q : q.quoteType \in {"EQUITY", "ETF"})

SearchStockSymbol(response) ==
    /\ last' = PageCall("search_stock_symbol", response, "ok", SearchResults(response))
    /\ UNCHANGED <<now, schema, seq, tables>>

NextSearch ==
    \/ Tick
    \/ \E response \in Responses : SearchStockSymbol(response)

SpecSearch == Init /\ [][NextSearch]_vars

\* ---------------------------------------------------------------- properties
\* C1: an upsert on a date leaves exactly one record for that date, holding the
\* content just written, and returns that record's id; when a record for the
\* date was there already (a second upsert), the record keeps its id and its
\* created_at and no row is added, so the second call returns the id the first
\* call returned.
C1_UpsertOverwritesInPlace ==
    [][\A d \in Dates, c \in Contents :
          AddTrend(d, c) =>
              LET before == TrendOn(d)
                  after == SelectSeq(investment_trends', LAMBDA r : r.week_start_date = d)
              IN /\ Len(after) = 1
                 /\ after[1].trend_content = c
                 /\ last'.status = "ok"
                 /\ last'.val = after[1].id
                 /\ before # <<>> =>
                        /\ after[1].id = before[1].id
                        /\ after[1].created_at = before[1].created_at
                        /\ Len(investment_trends') = Len(investment_trends)]_vars

\* A second upsert has overwritten a record at a later second.
C1_Witness ==
    \E r \in Range(investment_trends) :
        /\ last.op = "add_trend" /\ last.status = "ok"
        /\ last.args = <<r.week_start_date, "b">>
        /\ last.val = r.id
        /\ r.trend_content = "b"
        /\ r.updated_at > r.created_at

\* C2: in every reachable state of the store, no two records of
\* investment_trends have the same week_start_date.
C2_OneTrendPerWeek ==
    \A i, j \in 1..Len(investment_trends) :
        i # j => investment_trends[i].week_start_date # investment_trends[j].week_start_date

\* A date was written a second time, and another date has its own record.
C2_Witness ==
    /\ Len(investment_trends) = 2
    /\ \E r \in Range(investment_trends) : r.updated_at > r.created_at

\* C3: whatever trades were recorded, the statistics satisfy
\* total_amount = buy_amount + sell_amount, net_amount = buy_amount - sell_amount
\* and total_trades = the number of rows, and are all zero on the empty table.
C3_StatisticsConsistent ==
    last.op = "get_trade_statistics" =>
        /\ last.val.total_amount = FAdd(last.val.buy_amount, last.val.sell_amount)
        /\ last.val.net_amount = FSub(last.val.buy_amount, last.val.sell_amount)
        /\ last.val.total_trades = Len(trades)
        /\ trades = <<>> =>
               last.val = [total_trades |-> 0, total_amount |-> 0, buy_amount |-> 0,
                           sell_amount |-> 0, net_amount |-> 0]

\* The store's running sum of the amounts of rows 1..n of the given type
\* ("" for every type).
RECURSIVE RunningSum(_, _)
RunningSum(n, type) ==
    IF n = 0 THEN 0
    ELSE IF type = "" \/ trades[n].trade_type = type
         THEN FAdd(RunningSum(n - 1, type), trades[n].amount)
         ELSE RunningSum(n - 1, type)

C5_StatusFilterComplete ==
    (last.op = "get_trade_ideas" /\ last.args[1] \in Statuses \cup {NULL}) =>
        LET s == last.args[1]
            expected == {r \in Range(trade_ideas) : s = NULL \/ r.status = s}
        IN /\ Range(last.val) = expected
           /\ Len(last.val) = Cardinality(expected)
           /\ \A i, j \in 1..Len(last.val) :
                  i < j => last.val[i].created_at >= last.val[j].created_at

\* The filter completed answered one row and left out a row of another status.
C5_Witness ==
    /\ last.op = "get_trade_ideas"
    /\ last.args = <<"completed">>
    /\ Len(last.val) = 1
    /\ \E r \in Range(trade_ideas) : r.status = "active"

\* C6: update_gpt_trend writes title and trend_content of the addressed record;
\* with idea_content left out (None) the stored idea_content stays as it was,
\* and with idea_content supplied, the empty string included, the stored
\* idea_content becomes the supplied value.
C6_IdeaContentPartialUpdate ==
    [][\A i \in Ids, a \in GptArgs :
          UpdateGptTrend(i, a) =>
              /\ Len(gpt_trends') = Len(gpt_trends)
              /\ \A k \in 1..Len(gpt_trends) :
                     gpt_trends[k].id = i =>
                         /\ gpt_trends'[k].title = a[1]
                         /\ gpt_trends'[k].trend_content = a[2]
                         /\ gpt_trends'[k].idea_content =
                                IF a[3] = NULL THEN gpt_trends[k].idea_content ELSE a[3]]_vars

\* A record created with idea "x" was updated with idea_content left out and
\* still holds "x" beside the new title and content.
C6_Witness ==
    /\ last.op = "update_gpt_trend" /\ last.args[4] = NULL
    /\ \E r \in Range(gpt_trends) :
           /\ r.id = last.args[1]
           /\ r.title = last.args[2] /\ r.trend_content = last.args[3]
           /\ r.idea_content = "x"

\* C7: right after delete_gpt_trend(id) no gpt_trends row has that id, no
\* gpt_ideas row has that trend_id, and get_gpt_ideas_by_trend(id) can only
\* answer the empty list.
C7_CascadeDelete ==
    [][\A i \in Ids :
          DeleteGptTrend(i) =>
              /\ RowWithId(gpt_trends', i) = {}
              /\ \A r \in Range(gpt_ideas') : r.trend_id # i
              /\ IdeasByTrend(gpt_ideas', i) = {<<>>}]_vars

\* Child rows were written and a delete_gpt_trend has left none of them.
C7_Witness ==
    /\ last.op = "delete_gpt_trend"
    /\ seq["gpt_ideas"] >= 2
    /\ gpt_ideas = <<>>
    /\ RowWithId(gpt_trends, last.args[1]) = {}
    /\ seq["gpt_trends"] >= last.args[1]

\* C8: no step of any operation removes or changes a row of trades.
C8_TradesAppendOnly ==
    [][/\ Len(trades') >= Len(trades)
       /\ \A i \in 1..Len(trades) : trades'[i] = trades[i]]_vars

\* A trade is on record and a delete of another table's row ran after it.
C8_Witness ==
    /\ trades # <<>>
    /\ last.op = "delete_trade_idea"
    /\ last.args[1] \in {r.id : r \in Range(trades)}

\* C9: on a store whose trade_ideas table init_db created, add_trade_idea with
\* a non-empty description succeeds: the table gains one row with the supplied
\* fields and the call returns that row's id.
C9_CreateTradeIdeaSucceeds ==
    (/\ ~ideaPriceCol
     /\ last.op = "add_trade_idea"
     /\ last.args[2] # NULL /\ last.args[2] # "") =>
        /\ last.status = "ok"
        /\ \E r \in Range(trade_ideas) :
               /\ r.id = last.val
               /\ <<r.symbol, r.idea_description, r.entry_price, r.target_price,
                    r.stop_loss, r.reasoning, r.idea_price_at_creation>> = last.args

IdeaColumns ==
    {"id", "symbol", "idea_description", "entry_price", "target_price", "stop_loss",
     "reasoning", "status", "created_at", "updated_at", "idea_price_at_creation"}

\* Rows r and q agree on every column outside cols.
SameExcept(r, q, cols) == \A f \in IdeaColumns \ cols : r[f] = q[f]

\* C10: update_trade_idea_status writes status and updated_at of the addressed
\* row and nothing else of it; update_trade_idea_price_at_creation writes
\* idea_price_at_creation of the addressed row and nothing else of it, status and
\* updated_at included; neither touches another row.
C10_IndependentSingleFieldUpdates ==
    [][/\ \A i \in Ids, s \in Statuses :
              UpdateTradeIdeaStatus(i, s) =>
                  /\ Len(trade_ideas') = Len(trade_ideas)
                  /\ \A k \in 1..Len(trade_ideas) :
                         IF trade_ideas[k].id = i
                         THEN /\ SameExcept(trade_ideas'[k], trade_ideas[k],
                                            {"status", "updated_at"})
                              /\ trade_ideas'[k].status = s
                              /\ trade_ideas'[k].updated_at = now
                         ELSE trade_ideas'[k] = trade_ideas[k]
       /\ \A i \in Ids, p \in Prices :
              UpdateTradeIdeaPriceAtCreation(i, p) =>
                  /\ Len(trade_ideas') = Len(trade_ideas)
                  /\ \A k \in 1..Len(trade_ideas) :
                         IF trade_ideas[k].id = i
                         THEN /\ SameExcept(trade_ideas'[k], trade_ideas[k],
                                            {"idea_price_at_creation"})
                              /\ trade_ideas'[k].idea_price_at_creation = p
                         ELSE trade_ideas'[k] = trade_ideas[k]]_vars

\* An idea saved without a price was completed at a later second and then
\* given its price: updated_at is still the second of the status change.
C10_Witness ==
    /\ last.op = "update_trade_idea_price_at_creation" /\ last.status = "ok"
    /\ now > 0
    /\ \E r \in Range(trade_ideas) :
           /\ r.id = last.args[1]
           /\ r.symbol = NULL
           /\ r.idea_price_at_creation = last.args[2]
           /\ r.status = "completed"
           /\ r.updated_at > r.created_at

\* C11: init_db run again on an initialized store, after any sequence of
\* operations, succeeds and leaves every row of every table, the set of tables
\* and the columns of each table as they were.
C11_InitIdempotent ==
    [][InitDb => /\ UNCHANGED <<tables, schema, seq>>
                 /\ last'.status = "ok"]_vars

\* init_db has just run on a store that operations have filled.
C11_Witness ==
    /\ last.op = "init_db"
    /\ TotalInserted = MaxTotal
    /\ \E t \in {investment_trends, trade_ideas, trades, prompts, gpt_trends} :
           Len(t) = MaxTotal

\* C12: init_db on a store whose gpt_trends table has no idea_content column
\* adds the column, keeps every row with its id, title, trend_content,
\* created_at and updated_at, and gives each row a NULL idea_content.
C12_MigrationKeepsRows ==
    [][(/\ InitDb
        /\ schema["gpt_trends"] # {}
        /\ "idea_content" \notin schema["gpt_trends"]) =>
           /\ schema'["gpt_trends"] = schema["gpt_trends"] \cup {"idea_content"}
           /\ Len(gpt_trends') = Len(gpt_trends)
           /\ \A k \in 1..Len(gpt_trends) :
                  /\ \A f \in {"id", "title", "trend_content", "created_at",
                               "updated_at"} :
                         gpt_trends'[k][f] = gpt_trends[k][f]
                  /\ gpt_trends'[k].idea_content = NULL]_vars

\* Two rows of the older version stand in the migrated table, written before
\* the second in which init_db ran.
C12_Witness ==
    /\ last.op = "init_db"
    /\ now > 0
    /\ "idea_content" \in schema["gpt_trends"]
    /\ Len(gpt_trends) = 2
    /\ \A k \in 1..2 : /\ gpt_trends[k].title \in LegacyTitles
                       /\ gpt_trends[k].idea_content = NULL
                       /\ gpt_trends[k].updated_at = 0

\* C13: a storage error of a Database method reaches its caller, and at
\* whichever call of app.py it is raised, the page catches it and shows an error
\* message; the page run is not terminated.
C13_StorageErrorsCaught ==
    last.status \in {"OperationalError", "IntegrityError"} =>
        PageRun = "error message"

\* A text widget left empty or holding white space only.
Blank == {"", " "}

\* C14: a button pressed on a form with a blank required field or a required
\* number that is not positive calls no Database method and leaves the store
\* as it was (Save Trade: symbol, quantity, price; Save Idea: description; save
\* and update of a GPT trend: title, content; save and update of a prompt:
\* name, content); and every row of trades the pages wrote has quantity > 0,
\* price > 0 and amount = quantity * price.
C14_ValidationBeforePersistence ==
    [][LET NotAttempted == /\ UNCHANGED <<schema, seq, tables>>
                           /\ last'.status = "not attempted"
       IN /\ \A f \in TradeForms :
                 (SaveTrade(f) /\ (f[1] \in Blank \/ f[3] <= 0 \/ f[4] <= 0))
                     => NotAttempted
          /\ \A f \in IdeaForms, p \in {NullNum, 7} :
                 (SaveIdea(f, p) /\ f[2] \in Blank) => NotAttempted
          /\ \A f \in GptForms :
                 (SaveGptTrend(f) /\ (f[1] \in Blank \/ f[2] \in Blank))
                     => NotAttempted
          /\ \A k \in Ids, f \in GptEditForms :
                 (UpdateGptTrendPage(k, f) /\ (f[1] \in Blank \/ f[2] \in Blank))
                     => NotAttempted
          /\ \A f \in PromptForms :
                 (SavePrompt(f) /\ (f[1] \in Blank \/ f[2] \in Blank))
                     => NotAttempted
          /\ \A k \in Ids, f \in PromptEditForms :
                 (UpdatePromptPage(k, f) /\ (f[1] \in Blank \/ f[2] \in Blank))
                     => NotAttempted
          /\ \A r \in Range(trades') :
                 /\ r.quantity > 0
                 /\ r.price > 0
                 /\ r.amount = Round(r.quantity * r.price)]_vars

\* A trade of 3 at 3 is on record, and a Save Trade with price 0 was refused.
C14_Witness ==
    /\ last.op = "Save Trade"
    /\ last.status = "not attempted"
    /\ last.args[1] = "AAPL" /\ last.args[3] > 0 /\ last.args[4] = 0
    /\ \E r \in Range(trades) : r.quantity = 3 /\ r.price = 3 /\ r.amount = Round(9)

\* C15: in the price-chart, the details and the comparison view alike, with
\* several symbols requested, a symbol whose lookup fails or gives no data gets
\* an error block of its own and every symbol whose lookup gives data is
\* rendered.
C15_PerSymbolIsolation ==
    (last.op \in {"Price Chart", "Details", "Comparison"} /\ Len(last.args) > 1) =>
        \A k \in 1..Len(last.args) :
            IF last.args[k] = "data"
            THEN \E b \in Range(last.val) : b.symbol = k /\ b.shows # "error"
            ELSE \E b \in Range(last.val) : b.symbol = k /\ b.shows = "error"

\* C16: whatever the provider does (no response, a status other than 200, a
\* body that is not the expected JSON, no quotes), search_stock_symbol returns a
\* list without raising; the list is empty when the request failed, and
\* otherwise holds only quotes of type EQUITY or ETF taken, in order, from the
\* first 10 quotes of the answer, so at most 10.
C16_SearchNeverRaises ==
    last.op = "search_stock_symbol" =>
        LET response == last.args
            results == last.val
        IN /\ last.status = "ok"
           /\ results \in Seq(Range(response.quotes))
           /\ (response.status # 200 \/ response.body # "quotes") => results = <<>>
           /\ Len(results) <= 10
           /\ \A j \in 1..Len(results) :
                  /\ results[j].quoteType \in {"EQUITY", "ETF"}
                  /\ results[j].symbol <= 10
                  /\ j > 1 => results[j - 1].symbol < results[j].symbol

\* An answer of 12 quotes, all of type EQUITY, gave its first 10.
C16_Witness ==
    /\ last.op = "search_stock_symbol"
    /\ Len(last.args.quotes) = 12
    /\ Len(last.val) = 10
    /\ last.val[10].symbol = 10

\* C17: every Database method, whether it returns or raises a storage error,
\* has closed the connection it opened when control leaves it.
C17_ConnectionsClosed ==
    last.conn # "none" => last.conn = "closed"

\* C18: get_trends(limit), limit >= 0, answers min(limit, number of rows) rows
\* of investment_trends, in strictly descending week_start_date order, and no
\* row left out has a week_start_date above one that is answered; so after two
\* upserts on a date get_trends(1) answers the one row of the latest date with
\* the second content.
C18_ListTrends ==
    (last.op = "get_trends" /\ last.args[1] >= 0) =>
        LET limit == last.args[1]
            n == Len(investment_trends)
        IN /\ Len(last.val) = IF limit < n THEN limit ELSE n
           /\ Range(last.val) \subseteq Range(investment_trends)
           /\ \A i, j \in 1..Len(last.val) :
                  i < j => last.val[i].week_start_date > last.val[j].week_start_date
           /\ \A r \in Range(investment_trends) \ Range(last.val) :
                  \A v \in Range(last.val) : r.week_start_date < v.week_start_date

\* Two dates are on record, the later one upserted twice; get_trends(1)
\* answered that row alone, with the second content.
C18_Witness ==
    /\ last.op = "get_trends" /\ last.args = <<1>>
    /\ Len(investment_trends) = 2
    /\ Len(last.val) = 1
    /\ last.val[1].week_start_date = 2
    /\ last.val[1].trend_content = "b"
    /\ last.val[1].updated_at > last.val[1].created_at

\* C19: get_trades(limit) answers at most limit rows, ordered by trade_date
\* descending and, among rows of one trade_date, by created_at descending, so
\* that of two trades of the same day the one recorded later comes first.
C19_ListTrades ==
    (last.op = "get_trades" /\ last.args[1] >= 0) =>
        /\ Len(last.val) <= last.args[1]
        /\ \A i, j \in 1..Len(last.val) :
               i < j =>
                   /\ last.val[i].trade_date >= last.val[j].trade_date
                   /\ last.val[i].trade_date = last.val[j].trade_date =>
                          /\ last.val[i].created_at >= last.val[j].created_at
                          /\ last.val[i].id > last.val[j].id

\* C20: get_prompts(c) for a category c answers exactly the prompts whose
\* category is c, each once, ordered by name ascending; get_prompts() answers
\* every prompt, each once, ordered by category ascending and then by name
\* ascending.
C20_ListPrompts ==
    (last.op = "get_prompts" /\ last.args[1] \in Categories \cup {NULL}) =>
        LET c == last.args[1]
            expected == {r \in Range(prompts) : c = NULL \/ r.category = c}
            rows == last.val
        IN /\ Range(rows) = expected
           /\ Len(rows) = Cardinality(expected)
           /\ \A i, j \in 1..Len(rows) :
                  i < j =>
                      IF c # NULL
                      THEN Rank(rows[i].name) <= Rank(rows[j].name)
                      ELSE /\ Rank(rows[i].category) <= Rank(rows[j].category)
                           /\ rows[i].category = rows[j].category =>
                                  Rank(rows[i].name) <= Rank(rows[j].name)

\* The later-written prompt "m" of category general came before the earlier
\* "n" of that category, and a prompt of category macro was left out.
C20_Witness ==
    /\ last.op = "get_prompts" /\ last.args = <<"general">>
    /\ Len(last.val) = 2
    /\ last.val[1].name = "m" /\ last.val[2].name = "n"
    /\ last.val[1].id > last.val[2].id
    /\ \E r \in Range(prompts) : r.category = "macro"

\* ------------------------------------------- app.py: the Trade Ideas page
\* What the look-up of an idea's price gave inside the list's try block:
\* Raised when anything in the block raised an Exception (the provider, the
\* parsing of created_at, or the store after them), NullNum for an empty
\* history, else the first Close of the history.
Raised == 0 - 2
Closes == {0, 7}
Lookups == {Raised, NullNum} \cup Closes

\* The list writing a price for every idea with a symbol.
Backfillable_SymbolOnly(r) == r.symbol \notin {NULL, ""}

\* `idea['symbol'] and not idea.get('idea_price_at_creation')`: Python takes
\* None, '' and 0.0 for false.
Backfillable(r) ==
    /\ r.symbol \notin {NULL, ""}
    /\ r.idea_price_at_creation \in {NullNum, 0}

\* The rows get_trade_ideas(status) selects; the filter "All" is None.
Listed(status_filter) ==
    IF status_filter # NULL THEN {r \in Range(trade_ideas) : r.status = status_filter}
    ELSE Range(trade_ideas)

\* The place in rows of the first idea whose block reaches the write and the
\* st.rerun() after it, 0 when the loop comes to its end.
FirstBackfill(rows, hist) ==
    LET K == {k \in 1..Len(rows) : Backfillable(rows[k]) /\ hist[rows[k].id] \in Closes}
    IN IF K = {} THEN 0 ELSE CHOOSE k \in K : \A j \in K : k <= j

\* One run of the list tab with no button pressed.  hist[i] is what the
\* look-up for idea i gives.  The run ends at the first write, which reruns
\* the page; without one it renders every idea, and the answer names the
\* ideas whose look-up was tried and gave nothing.
RenderIdeaList(status_filter, hist) ==
    \E rows \in OrderedByCreatedDesc(Listed(status_filter)) :
        LET k == FirstBackfill(rows, hist) IN
        IF k = 0
        THEN /\ last' = PageCall("Trade Ideas List", <<status_filter>>, "rendered",
                                 {r.id : r \in {q \in Range(rows) : Backfillable(q)}})
             /\ UNCHANGED <<now, schema, seq, tables>>
        ELSE UpdateTradeIdeaPriceAtCreation(rows[k].id, hist[rows[k].id])

\* The Delete button of a listed idea.
DeleteIdeaButton(idea_id) ==
    /\ RowWithId(trade_ideas, idea_id) # {}
    /\ \/ DeleteTradeIdea(idea_id)
       \/ StorageFails("delete_trade_idea", <<idea_id>>)

\* A button shown on every idea that sets an active idea completed and any
\* other idea active.
CompleteIdeaButton_Toggles(idea_id) ==
    \E r \in RowWithId(trade_ideas, idea_id) :
        UpdateTradeIdeaStatus(idea_id, IF r.status = "active" THEN "completed"
                                       ELSE "active")

\* The Complete button, shown `if idea['status'] == 'active'`.
CompleteIdeaButton(idea_id) ==
    /\ \E r \in RowWithId(trade_ideas, idea_id) : r.status = "active"
    /\ \/ UpdateTradeIdeaStatus(idea_id, "completed")
       \/ StorageFails("update_trade_idea_status", <<idea_id, "completed">>)

\* The Add Idea form with its Status selectbox as fifth field.
IdeaPageForms ==
    {<<sy, d, 5, "", st>> : sy \in {"", "AAPL"}, d \in {" ", "d"}, st \in Statuses}

NextIdeaPage ==
    \/ \E form \in IdeaPageForms, fetched \in {NullNum} \cup Closes : SaveIdea(form, fetched)
    \/ \E f \in {NULL, "active"}, hist \in [Ids -> Lookups] : RenderIdeaList(f, hist)
    \/ \E i \in Ids : DeleteIdeaButton(i)
    \/ \E i \in Ids : CompleteIdeaButton(i)

SpecIdeaPage == Init /\ [][NextIdeaPage]_vars

\* ------------------------------------------------------- look-ups by key
\* Keys looked up: every key a row can have, and one no row ever has.
DateKeys == Dates \cup {NullNum}
IdKeys == 0..MaxId

NextFetch ==
    \/ Budget /\ \E d \in Dates, c \in Contents : AddTrend(d, c)
    \/ Budget /\ AddGptTrend(<<"t", "a", NULL>>)
    \/ Budget /\ AddPrompt(<<"n", "p", "general">>)
    \/ \E i \in Ids : DeleteGptTrend(i)
    \/ \E i \in Ids : DeletePrompt(i)
    \/ \E d \in DateKeys : GetTrendByDate(d)
    \/ \E i \in IdKeys : GetGptTrendById(i)
    \/ \E i \in IdKeys : GetPromptById(i)

SpecFetch == Init /\ [][NextFetch]_vars

\* The rows of the table a look-up reads whose key is the key looked up.
Keyed(op, key) ==
    CASE op = "get_trend_by_date" ->
             {r \in Range(investment_trends) : r.week_start_date = key}
      [] op = "get_gpt_trend_by_id" -> {r \in Range(gpt_trends) : r.id = key}
      [] op = "get_prompt_by_id" -> {r \in Range(prompts) : r.id = key}

\* C22: a look-up by key (get_trend_by_date, get_gpt_trend_by_id,
\* get_prompt_by_id) never fails and never changes the store; when a record
\* has the key there is exactly one and the look-up answers it, and when none
\* has it the look-up answers the empty result.
C22_FetchByKey ==
    [][last'.op \in {"get_trend_by_date", "get_gpt_trend_by_id", "get_prompt_by_id"} =>
          /\ last'.status = "ok"
          /\ UNCHANGED <<now, schema, seq, tables>>
          /\ Cardinality(Keyed(last'.op, last'.args[1])) <= 1
          /\ IF Keyed(last'.op, last'.args[1]) = {}
             THEN last'.val = NULL
             ELSE last'.val \in Keyed(last'.op, last'.args[1])]_vars

\* The trend of one week is stored and the look-up of another week answered
\* the empty result.
C22_Witness ==
    /\ last.op = "get_trend_by_date" /\ last.status = "ok"
    /\ last.args[1] \in Dates
    /\ investment_trends # <<>>
    /\ Keyed(last.op, last.args[1]) = {}
    /\ last.val = NULL

\* ------------------------------------------------------ recording a trade
\* add_trade called directly, with every combination of quantity, price and
\* amount: the amount need not be the product.
EntryQuantities == {1, 3}
EntryPrices == {2, 3}

NextTradeEntry ==
    \/ \E q \in EntryQuantities, p \in EntryPrices, a \in Amounts :
           AddTrade("AAPL", "buy", q, p, a, NULL, 1)
    \/ GetTradeStatistics

SpecTradeEntry == Init /\ [][NextTradeEntry]_vars

\* C21: every add_trade call succeeds and appends one row whose amount is the
\* amount argument as given, and whose quantity and price are the arguments
\* as given, whether or not the amount is quantity * price; no other row
\* changes.
C21_AmountVerbatim ==
    [][last'.op = "add_trade" =>
          /\ last'.status = "ok"
          /\ Len(trades') = Len(trades) + 1
          /\ SubSeq(trades', 1, Len(trades)) = trades
          /\ trades'[Len(trades')].id = last'.val
          /\ trades'[Len(trades')].quantity = last'.args[3]
          /\ trades'[Len(trades')].price = last'.args[4]
          /\ trades'[Len(trades')].amount = last'.args[5]]_vars

\* A trade of quantity 3 at price 2 was recorded with amount 7, and the row
\* holds 7.
C21_Witness ==
    /\ last.op = "add_trade" /\ last.status = "ok"
    /\ last.args[3] = 3 /\ last.args[4] = 2 /\ last.args[5] = 7
    /\ last.args[5] # FMul(last.args[3], last.args[4])
    /\ \E r \in RowWithId(trades, last.val) : r.amount = 7

\* C23: when Update Trend & Idea is pressed with the idea field blank (every
\* edit form of SpecApp has it blank) on a trend whose stored idea_content is
\* not empty, the page hands update_gpt_trend an explicit empty value and the
\* stored idea_content is cleared.
C23_BlankIdeaClears ==
    [][(last'.op = "update_gpt_trend" /\ last'.status = "ok") =>
          \A r \in RowWithId(gpt_trends, last'.args[1]) :
              r.idea_content \notin {NULL, ""} =>
                  /\ last'.args[4] # NULL
                  /\ \A q \in RowWithId(gpt_trends', last'.args[1]) :
                         q.idea_content = ""]_vars

\* C24: through the Trade Ideas page an idea's status only moves away from
\* active: in every step an idea that is completed or cancelled keeps its
\* status for as long as it exists, and an active idea stays active or
\* becomes completed or cancelled.
C24_StatusOneWay ==
    [][\A r \in Range(trade_ideas) : \A q \in RowWithId(trade_ideas', r.id) :
          IF r.status = "active" THEN q.status \in Statuses
          ELSE q.status = r.status]_vars

\* A completed idea kept its status while the list, rendered after the
\* completion, wrote its price.
C24_Witness ==
    /\ last.op = "update_trade_idea_price_at_creation" /\ last.status = "ok"
    /\ \E r \in RowWithId(trade_ideas, last.args[1]) :
           r.status = "completed" /\ r.idea_price_at_creation = 7

\* C25 as stated: a run of the list writes a price only for an idea that has
\* a symbol and no stored price, so that a stored price is never overwritten,
\* and changes nothing else; a run in which every look-up failed or gave
\* nothing renders the list and changes nothing.
C25_BackfillOnlyMissing ==
    [][/\ last'.op = "update_trade_idea_price_at_creation" =>
              \A r \in RowWithId(trade_ideas, last'.args[1]) :
                  /\ r.symbol \notin {NULL, ""}
                  /\ r.idea_price_at_creation = NullNum
       /\ last'.op = "Trade Ideas List" =>
              /\ last'.status = "rendered"
              /\ UNCHANGED <<now, schema, seq, tables>>]_vars

\* C25, amended: a run of the list writes a price only for an idea that has
\* a symbol and whose stored price is missing or zero, and writes that idea's
\* price and nothing else, so that a stored price other than zero is never
\* overwritten; a run in which the look-up of every such idea failed or gave
\* nothing renders the whole list and changes nothing.
C25_BackfillOnlyMissingOrZero ==
    [][/\ last'.op = "update_trade_idea_price_at_creation" =>
              /\ last'.status = "ok"
              /\ \A r \in RowWithId(trade_ideas, last'.args[1]) :
                     /\ r.symbol \notin {NULL, ""}
                     /\ r.idea_price_at_creation \in {NullNum, 0}
              /\ \A r \in Range(trade_ideas) :
                     r.idea_price_at_creation \notin {NullNum, 0} =>
                         r \in Range(trade_ideas')
              /\ Len(trade_ideas') = Len(trade_ideas)
              /\ \A k \in 1..Len(trade_ideas) :
                     trade_ideas'[k] =
                         IF trade_ideas[k].id = last'.args[1]
                         THEN [trade_ideas[k] EXCEPT
                                  !.idea_price_at_creation = last'.args[2]]
                         ELSE trade_ideas[k]
       /\ last'.op = "Trade Ideas List" =>
              /\ last'.status = "rendered"
              /\ UNCHANGED <<now, schema, seq, tables>>
              /\ \A r \in Listed(last'.args[1]) :
                     (r.symbol \notin {NULL, ""}
                        /\ r.idea_price_at_creation \in {NullNum, 0})
                     => r.id \in last'.val]_vars

\* The list was rendered to its end: the look-up for an idea without a price
\* gave nothing and the idea is as it was, next to an idea whose price 7 is
\* stored.
C25_Witness ==
    /\ last.op = "Trade Ideas List" /\ last.status = "rendered"
    /\ \E r, q \in Range(trade_ideas) :
           /\ r.id \in last.val /\ r.idea_price_at_creation = NullNum
           /\ q.idea_price_at_creation = 7

\* C26: every successful backfill of an idea leaves that idea no longer
\* eligible for backfill in the rerun that follows it, so that the reruns the
\* list triggers are at most as many as the ideas.
C26_BackfillEndsEligibility ==
    [][(last'.op = "update_trade_idea_price_at_creation" /\ last'.status = "ok") =>
          \A r \in RowWithId(trade_ideas', last'.args[1]) :
              ~(r.symbol \notin {NULL, ""}
                  /\ r.idea_price_at_creation \in {NullNum, 0})]_vars

\* ------------------------------------------- the legacy child-idea table
NextLegacyIdeas ==
    \/ \E a \in GptArgs : AddGptTrend(a)
    \/ \E i \in Ids : DeleteGptTrend(i)
    \/ \E i \in Ids, c \in IdeaTexts : AddGptIdea(i, c)
    \/ \E i \in Ids : DeleteGptIdea(i)

SpecLegacyIdeas == Init /\ [][NextLegacyIdeas]_vars

\* C27: in every state reached by add_gpt_idea, delete_gpt_idea,
\* add_gpt_trend and delete_gpt_trend calls, the trend_id of every gpt_ideas
\* row is the id of a gpt_trends row.
C27_ReferentialIntegrity ==
    \A r \in Range(gpt_ideas) : \E t \in Range(gpt_trends) : t.id = r.trend_id

\* The rows an update or delete call addresses by its id: the rows of its
\* table with that id and, for delete_gpt_trend, the child rows of that
\* trend_id too.
Addressed(op, id) ==
    CASE op \in {"update_trade_idea_status", "update_trade_idea_price_at_creation",
                 "delete_trade_idea"} -> RowWithId(trade_ideas, id)
      [] op \in {"update_prompt", "delete_prompt"} -> RowWithId(prompts, id)
      [] op = "update_gpt_trend" -> RowWithId(gpt_trends, id)
      [] op = "delete_gpt_trend" ->
             RowWithId(gpt_trends, id) \cup {r \in Range(gpt_ideas) : r.trend_id = id}

\* C28: update_trade_idea_status, update_trade_idea_price_at_creation,
\* delete_trade_idea, update_prompt, delete_prompt, update_gpt_trend and
\* delete_gpt_trend, called with an id that matches no row, complete without
\* error and leave every table unchanged.
C28_NoMatchNoChange ==
    [][(/\ last'.op \in {"update_trade_idea_status",
                          "update_trade_idea_price_at_creation",
                          "delete_trade_idea", "update_prompt", "delete_prompt",
                          "update_gpt_trend", "delete_gpt_trend"}
        /\ Addressed(last'.op, last'.args[1]) = {})
       => /\ last'.status = "ok"
          /\ UNCHANGED <<seq, tables>>]_vars

\* C29: a delete removes the addressed record and nothing else.
\* delete_gpt_trend(id) removes the gpt_trends row with that id and the
\* gpt_ideas rows of that trend_id, and leaves every other gpt_trends row and
\* every gpt_ideas row of another trend_id as it was, in place;
\* delete_trade_idea(id) and delete_prompt(id) remove the row with that id
\* from their table and leave its other rows as they were; each leaves all
\* rows of every other table unchanged.
C29_DeleteFrames ==
    [][/\ last'.op = "delete_gpt_trend" =>
              /\ gpt_trends' = SelectSeq(gpt_trends, LAMBDA r : r.id # last'.args[1])
              /\ gpt_ideas' = SelectSeq(gpt_ideas, LAMBDA r : r.trend_id # last'.args[1])
              /\ UNCHANGED <<investment_trends, trade_ideas, trades, prompts>>
       /\ last'.op = "delete_trade_idea" =>
              /\ trade_ideas' = SelectSeq(trade_ideas, LAMBDA r : r.id # last'.args[1])
              /\ UNCHANGED <<investment_trends, trades, prompts, gpt_trends, gpt_ideas>>
       /\ last'.op = "delete_prompt" =>
              /\ prompts' = SelectSeq(prompts, LAMBDA r : r.id # last'.args[1])
              /\ UNCHANGED <<investment_trends, trade_ideas, trades, gpt_trends,
                             gpt_ideas>>]_vars

\* Trend 1 was deleted and the child row of trend_id 2 is still there.
C29_Witness ==
    /\ last.op = "delete_gpt_trend" /\ last.args = <<1>>
    /\ seq["gpt_trends"] >= 1 /\ RowWithId(gpt_trends, 1) = {}
    /\ \E r \in Range(gpt_ideas) : r.trend_id = 2

\* C30: every idea add_trade_idea creates starts with status 'active'; Save
\* Idea, pressed with any of the three statuses selected in the form, stores
\* the idea as 'active'.
C30_NewIdeaActive ==
    [][(last'.op = "add_trade_idea" /\ last'.status = "ok") =>
          /\ Len(trade_ideas') = Len(trade_ideas) + 1
          /\ trade_ideas'[Len(trade_ideas')].id = last'.val
          /\ trade_ideas'[Len(trade_ideas')].status = "active"]_vars

\* Save Idea stored a second idea as active next to an idea completed since
\* it was saved.
C30_Witness ==
    /\ last.op = "add_trade_idea" /\ last.status = "ok"
    /\ \E r \in RowWithId(trade_ideas, last.val) : r.status = "active"
    /\ \E q \in Range(trade_ideas) : q.status = "completed"

====
